---- MODULE Spec2Model ----
(***************************************************************************)
(* A model of extract_results.py: the extraction pass over a JSONL file    *)
(* (extract_all_results), the category summary (calculate_summary) and the *)
(* printing done by main.                                                  *)
(*                                                                         *)
(* Numbers of the input are integers in thousandths (912 is 0.912); a      *)
(* number that has been through round(x, 2) is an integer in hundredths.   *)
(* A formatted string is a sequence of tokens: a number text, the text     *)
(* " ± " (pm) and the text " / " (sep), so that ' / '.join and str.split   *)
(* are computed on the text and not assumed to be inverse to each other.   *)
(***************************************************************************)
EXTENDS Integers, Sequences, FiniteSets, TLC

\* Bounds of the model: the number of lines of the input file, for the files
\* over all of Records and for the longer files over DeepRecords.
MaxLines == 2

MaxDeepLines == 4

\* Python's None (a missing "dataset" field: data.get('dataset')).
None == "<None>"

----------------------------------------------------------------------------
(* The schema *)

expected_datasets_metrics ==
  [d \in {"norec", "norne-nb", "norne-nn", "scala-nb", "scala-nn", "norquad",
          "no-sammendrag", "mmlu-no", "hellaswag-no", "speed"} |->
     CASE d = "norec" -> "test_macro_f1"
       [] d = "norne-nb" -> "test_micro_f1"
       [] d = "norne-nn" -> "test_micro_f1"
       [] d = "scala-nb" -> "test_macro_f1"
       [] d = "scala-nn" -> "test_macro_f1"
       [] d = "norquad" -> "test_f1"
       [] d = "no-sammendrag" -> "test_rouge_l"
       [] d = "mmlu-no" -> "test_accuracy"
       [] d = "hellaswag-no" -> "test_accuracy"
       [] OTHER -> "Not printed"]

linguistic_datasets == {"norec", "scala-nn", "no-sammendrag"}

logical_datasets == {"norquad", "mmlu-no", "hellaswag-no"}

----------------------------------------------------------------------------
(* The input: one JSON record per line *)

\* A key of results.total: its text is base, followed by "_se" when se.
Key(b) == [base |-> b, se |-> FALSE]

SeKey(b) == [base |-> b, se |-> TRUE]

\* The model names of the input.
Models == {"A", "B"}

\* The dataset fields of the input: schema datasets of the linguistic group,
\* of the logical group and of neither, speed, an unknown name, no field.
InputDatasets == {"norec", "norquad", "norne-nb", "speed", "foo", None}

\* The results.total blocks of a record of dataset d, as the sequence of its
\* (key, value) items: none; the primary metric alone; the primary metric with
\* its standard error, a standard error without its metric, a second metric.
TotalsFor(d) ==
  IF d \in DOMAIN expected_datasets_metrics /\ d # "speed"
  THEN LET k == expected_datasets_metrics[d] IN
       { <<>>,
         << [k |-> Key(k), v |-> 912] >>,
         << [k |-> Key(k), v |-> 804], [k |-> SeKey(k), v |-> 16],
            [k |-> SeKey("test_mcc"), v |-> 31],
            [k |-> Key("test_em"), v |-> 698], [k |-> SeKey("test_em"), v |-> 34] >> }
  ELSE { <<>> }

BlankLine == [blank |-> TRUE, model |-> None, dataset |-> None, total |-> <<>>]

Records ==
  UNION { { [blank |-> FALSE, model |-> m, dataset |-> d, total |-> t] :
              t \in TotalsFor(d) } : m \in Models, d \in InputDatasets }

\* A smaller set of records, for longer files: two models, two schema datasets
\* and no dataset field, with and without the metrics.
DeepRecords ==
  { r \in Records : /\ r.dataset \in {"norec", "norquad", None}
                    /\ Len(r.total) # 1 }

----------------------------------------------------------------------------
(* Text *)

Num(h) == [t |-> "num", n |-> h]

Pm == [t |-> "pm", n |-> 0]

Sep == [t |-> "sep", n |-> 0]

\* round(x, 2) of x in thousandths, in hundredths.
Round2(x) ==
  LET q == x \div 10
      r == x % 10
  IN IF r < 5 THEN q
     ELSE IF r > 5 THEN q + 1
     ELSE IF q % 2 = 0 THEN q ELSE q + 1

\* f"{round(x, 2)}"
FormatNum(x) == << Num(Round2(x)) >>

\* f"{round(b, 2)} ± {round(s, 2)}"
FormatPm(b, s) == FormatNum(b) \o << Pm >> \o FormatNum(s)

RECURSIVE Join(_, _)
\* sepTok.join(parts)
Join(sepTok, parts) ==
  IF parts = <<>> THEN <<>>
  ELSE IF Len(parts) = 1 THEN parts[1]
  ELSE parts[1] \o << sepTok >> \o Join(sepTok, Tail(parts))

RECURSIVE Split(_, _)
\* s.split(sepTok): at least one part, the empty text for the empty text.
Split(s, sepTok) ==
  IF \A i \in 1..Len(s) : s[i] # sepTok THEN << s >>
  ELSE LET i == CHOOSE j \in 1..Len(s) :
                  s[j] = sepTok /\ \A h \in 1..(j - 1) : s[h] # sepTok
       IN << SubSeq(s, 1, i - 1) >> \o Split(SubSeq(s, i + 1, Len(s)), sepTok)

\* float(text) succeeds on the text of one number and raises ValueError otherwise.
IsFloat(text) == Len(text) = 1 /\ text[1].t = "num"

FloatOf(text) == text[1].n

----------------------------------------------------------------------------
(* extract_all_results: the state of the pass *)

VARIABLES
  output_se,         \* --output_se
  all_metrics,       \* --all_metrics
  lines,             \* the lines of the file read so far
  results_dict,      \* model -> {"Dataset": [...], model: [...]}, in insertion order
  existing_models,
  unknown_datasets,
  unknown_metrics,
  conflicts,         \* model -> dataset -> [values], in insertion order
  pc,                \* where the run is
  out,               \* what has been printed
  args,              \* --no-summary, --only-summary
  summary,           \* calculate_summary's result, in insertion order
  sidx,              \* calculate_summary's position in results_dict.items()
  score_parts        \* calculate_summary's local of that name

vars == << output_se, all_metrics, lines, results_dict, existing_models,
           unknown_datasets, unknown_metrics, conflicts, pc, out, args,
           summary, sidx, score_parts >>

\* total_fields.get(key) is not None
TotalHas(total, key) == \E i \in 1..Len(total) : total[i].k = key

\* total_fields[key]
TotalGet(total, key) == total[CHOOSE i \in 1..Len(total) : total[i].k = key].v

\* The index of model m in a dict kept as a sequence of entries, 0 when absent.
IndexOf(dict, m) ==
  IF \E i \in 1..Len(dict) : dict[i].model = m
  THEN CHOOSE i \in 1..Len(dict) : dict[i].model = m
  ELSE 0

\* IsKnownDataset with one key of the schema misspelt.
IsKnownDatasetTypo(d) == d \in DOMAIN expected_datasets_metrics \ {"norec"}

\* dataset not in expected_datasets_metrics, negated
IsKnownDataset(d) == d \in DOMAIN expected_datasets_metrics

\* ProducesValue without the test for speed.
ProducesValueSpeedToo(d) == d # None /\ d # ""

\* if dataset and dataset != "speed"
ProducesValue(d) == d # None /\ d # "" /\ d # "speed"

\* if model_name not in results_dict: results_dict[model_name] = {...}
EnsureModel(rd, m) ==
  IF IndexOf(rd, m) # 0 THEN rd
  ELSE Append(rd, [model |-> m, Dataset |-> <<>>, Values |-> <<>>])

RECURSIVE AllMetricsValues(_, _, _)
\* for k, v in total_fields.items(): if k.endswith('_se'): ...
\* over the items from position i on
AllMetricsValues(total, i, se) ==
  IF i > Len(total) THEN <<>>
  ELSE LET k == total[i].k
           v == total[i].v
           base_key == Key(k.base)
           here == IF k.se /\ TotalHas(total, base_key)
                   THEN IF se
                        THEN << FormatPm(TotalGet(total, base_key), v) >>
                        ELSE << FormatNum(TotalGet(total, base_key)) >>
                   ELSE <<>>
       IN here \o AllMetricsValues(total, i + 1, se)

\* base_value = total_fields.get(metric_key) ... combined_results.append(...)
PrimaryValues(total, metric_key, se) ==
  IF TotalHas(total, Key(metric_key))
  THEN IF se /\ TotalHas(total, SeKey(metric_key))
       THEN << FormatPm(TotalGet(total, Key(metric_key)),
                        TotalGet(total, SeKey(metric_key))) >>
       ELSE << FormatNum(TotalGet(total, Key(metric_key))) >>
  ELSE <<>>

\* combined_results at the end of the if all_metrics / else block
CombinedResults(rec, se, all) ==
  IF all
  THEN AllMetricsValues(rec.total, 1, se)
  ELSE PrimaryValues(rec.total, expected_datasets_metrics[rec.dataset], se)

\* ' / '.join(combined_results)
FormattedValue(rec, se, all) == Join(Sep, CombinedResults(rec, se, all))

\* unknown_metrics.add(f"{dataset}: {metric_key}"), the text kept as its two parts
UnknownMetricsAfter(um, rec, all) ==
  IF ~all /\ ~TotalHas(rec.total, Key(expected_datasets_metrics[rec.dataset]))
  THEN um \cup { [dataset |-> rec.dataset,
                  metric |-> expected_datasets_metrics[rec.dataset]] }
  ELSE um

\* AlreadyRecorded looking at the last recorded dataset only.
AlreadyRecordedLastOnly(rd, m, d) ==
  /\ IndexOf(rd, m) # 0
  /\ rd[IndexOf(rd, m)].Dataset # <<>>
  /\ rd[IndexOf(rd, m)].Dataset[Len(rd[IndexOf(rd, m)].Dataset)] = d

\* dataset in results_dict[model_name]["Dataset"]
AlreadyRecorded(rd, m, d) ==
  /\ IndexOf(rd, m) # 0
  /\ \E i \in 1..Len(rd[IndexOf(rd, m)].Dataset) : rd[IndexOf(rd, m)].Dataset[i] = d

\* AppendResult inserting at the front of the two lists.
AppendResultFront(rd, m, d, text) ==
  LET i == IndexOf(rd, m)
  IN [rd EXCEPT ![i].Dataset = << d >> \o @, ![i].Values = << text >> \o @]

\* results_dict[model_name]["Dataset"].append(dataset)
\* results_dict[model_name][model_name].append(' / '.join(combined_results))
AppendResult(rd, m, d, text) ==
  LET i == IndexOf(rd, m)
  IN [rd EXCEPT ![i].Dataset = Append(@, d), ![i].Values = Append(@, text)]

\* conflicts.setdefault(model_name, {}).setdefault(dataset, []).append(text)
AddConflict(cf, m, d, text) ==
  LET cf1 == IF IndexOf(cf, m) # 0 THEN cf
             ELSE Append(cf, [model |-> m, datasets |-> <<>>])
      i == IndexOf(cf1, m)
      ds == cf1[i].datasets
      ds1 == IF \E j \in 1..Len(ds) : ds[j].dataset = d THEN ds
             ELSE Append(ds, [dataset |-> d, values |-> <<>>])
      j == CHOOSE h \in 1..Len(ds1) : ds1[h].dataset = d
  IN [cf1 EXCEPT ![i].datasets = [ds1 EXCEPT ![j].values = Append(@, text)]]

Init ==
  /\ output_se \in BOOLEAN
  /\ all_metrics \in BOOLEAN
  /\ lines = <<>>
  /\ results_dict = <<>>
  /\ existing_models = {}
  /\ unknown_datasets = {}
  /\ unknown_metrics = {}
  /\ conflicts = <<>>
  /\ pc = "reading"
  /\ out = <<>>
  /\ args = [no_summary |-> FALSE, only_summary |-> FALSE]
  /\ summary = <<>>
  /\ sidx = 0
  /\ score_parts = <<>>

\* for line in file: if line.strip() fails: the line is skipped.
\* limit bounds the length of the file.
SkipBlankLine(limit) ==
  /\ pc = "reading"
  /\ Len(lines) < limit
  /\ lines' = Append(lines, BlankLine)
  /\ UNCHANGED << output_se, all_metrics, results_dict, existing_models,
                  unknown_datasets, unknown_metrics, conflicts, pc, out, args,
                  summary, sidx, score_parts >>

\* The body of the loop for one non-empty line holding the record rec.
ProcessLine(rec, limit) ==
  /\ pc = "reading"
  /\ Len(lines) < limit
  /\ lines' = Append(lines, rec)
  /\ existing_models' = existing_models \cup {rec.model}
  /\ IF ~IsKnownDataset(rec.dataset)
     THEN /\ unknown_datasets' = unknown_datasets \cup {rec.dataset}
          /\ UNCHANGED << results_dict, unknown_metrics, conflicts >>
     ELSE LET rd == EnsureModel(results_dict, rec.model) IN
          /\ UNCHANGED unknown_datasets
          /\ IF ~ProducesValue(rec.dataset)
             THEN /\ results_dict' = rd
                  /\ UNCHANGED << unknown_metrics, conflicts >>
             ELSE LET text == FormattedValue(rec, output_se, all_metrics) IN
                  /\ unknown_metrics' = UnknownMetricsAfter(unknown_metrics, rec, all_metrics)
                  /\ IF AlreadyRecorded(rd, rec.model, rec.dataset)
                     THEN /\ conflicts' = AddConflict(conflicts, rec.model, rec.dataset, text)
                          /\ results_dict' = rd
                     ELSE /\ results_dict' = AppendResult(rd, rec.model, rec.dataset, text)
                          /\ UNCHANGED conflicts
  /\ UNCHANGED << output_se, all_metrics, pc, out, args, summary, sidx, score_parts >>

----------------------------------------------------------------------------
(* extract_all_results: after the pass *)

\* if conflicts:
HasConflicts(cf) == cf # <<>>

RECURSIVE ConflictLines(_, _, _)
\* for model_name, datasets in conflicts.items():
\*     for dataset, values in datasets.items(): print(...)
\* from model i, dataset j on
ConflictLines(cf, i, j) ==
  IF i > Len(cf) THEN <<>>
  ELSE IF j > Len(cf[i].datasets) THEN ConflictLines(cf, i + 1, 1)
  ELSE << [kind |-> "conflict",
           body |-> [model |-> cf[i].model,
                     dataset |-> cf[i].datasets[j].dataset,
                     values |-> cf[i].datasets[j].values]] >>
       \o ConflictLines(cf, i, j + 1)

\* ConflictReport stopping after the first conflicting pair.
ConflictReportFirstOnly(cf) ==
  << [kind |-> "conflicts_header", body |-> <<>>] >>
  \o SubSeq(ConflictLines(cf, 1, 1), 1, 1)

\* What the if conflicts: block prints.
ConflictReport(cf) ==
  << [kind |-> "conflicts_header", body |-> <<>>] >> \o ConflictLines(cf, 1, 1)

\* What the lines after it print when the pass found no conflict.
Diagnostics(ud, um) ==
  (IF ud # {} THEN << [kind |-> "unknown_datasets", body |-> ud] >> ELSE <<>>)
  \o (IF um # {} THEN << [kind |-> "unknown_metrics", body |-> um] >> ELSE <<>>)

\* End of file with conflicts: the report is printed and sys.exit(1) ends the run.
ExitOnConflicts ==
  /\ pc = "reading"
  /\ HasConflicts(conflicts)
  /\ out' = out \o ConflictReport(conflicts)
  /\ pc' = "exit1"
  /\ UNCHANGED << output_se, all_metrics, lines, results_dict, existing_models,
                  unknown_datasets, unknown_metrics, conflicts, args, summary,
                  sidx, score_parts >>

\* End of file without conflicts, None among the unknown datasets:
\* ', '.join(unknown_datasets) raises TypeError.
UnknownDatasetsTypeError ==
  /\ pc = "reading"
  /\ ~HasConflicts(conflicts)
  /\ None \in unknown_datasets
  /\ pc' = "error"
  /\ UNCHANGED << output_se, all_metrics, lines, results_dict, existing_models,
                  unknown_datasets, unknown_metrics, conflicts, out, args,
                  summary, sidx, score_parts >>

\* if not args.no_summary or args.only_summary:
SummaryWanted(a) == ~a.no_summary \/ a.only_summary

\* End of file without conflicts: the diagnostics are printed and the results
\* returned to main, which goes on to calculate_summary or to the printing.
\* The flags main reads from here on are drawn here.
ReturnResults ==
  /\ pc = "reading"
  /\ ~HasConflicts(conflicts)
  /\ None \notin unknown_datasets
  /\ out' = out \o Diagnostics(unknown_datasets, unknown_metrics)
  /\ \E ns \in BOOLEAN, os \in BOOLEAN :
       args' = [no_summary |-> ns, only_summary |-> os]
  /\ pc' = IF SummaryWanted(args') /\ results_dict # <<>> THEN "summary" ELSE "print"
  /\ sidx' = 1
  /\ UNCHANGED << output_se, all_metrics, lines, results_dict, existing_models,
                  unknown_datasets, unknown_metrics, conflicts, summary,
                  score_parts >>

----------------------------------------------------------------------------
(* calculate_summary *)

RECURSIVE Sum(_)
Sum(s) == IF s = <<>> THEN 0 ELSE Head(s) + Sum(Tail(s))

\* part.split(" ± ")[0]
BaseText(part) == Split(part, Pm)[1]

\* " ± " in part
HasPm(part) == \E i \in 1..Len(part) : part[i] = Pm

\* part.split(" ± ")[1]
SeText(part) == Split(part, Pm)[2]

\* scores = [float(part.split(" ± ")[0]) for part in score_parts] raises ValueError
ScoresRaise(result) ==
  \E i \in 1..Len(Split(result, Sep)) : ~IsFloat(BaseText(Split(result, Sep)[i]))

\* scores = [float(part.split(" ± ")[0]) for part in score_parts]
Scores(result) ==
  [i \in 1..Len(Split(result, Sep)) |-> FloatOf(BaseText(Split(result, Sep)[i]))]

RECURSIVE GroupScores(_, _, _)
\* The scores of the datasets of one group, from dataset i of the model on.
GroupScores(data, group, i) ==
  IF i > Len(data.Dataset) THEN <<>>
  ELSE (IF data.Dataset[i] \in group THEN Scores(data.Values[i]) ELSE <<>>)
       \o GroupScores(data, group, i + 1)

\* linguistic_scores at the end of the loop over the model's datasets
LinguisticScores(data) == GroupScores(data, linguistic_datasets, 1)

\* logical_scores at the end of that loop: the elif branch
LogicalScores(data) == GroupScores(data, logical_datasets \ linguistic_datasets, 1)

\* score_parts when the loop over the model's datasets has ended: the parts of
\* the last result of the model, or what it was before when there is none.
ScorePartsAfter(data, before) ==
  IF data.Values = <<>> THEN before
  ELSE Split(data.Values[Len(data.Values)], Sep)

RECURSIVE SeValues(_, _)
\* [float(part.split(" ± ")[1]) for part in score_parts if " ± " in part]
SeValues(parts, i) ==
  IF i > Len(parts) THEN <<>>
  ELSE (IF HasPm(parts[i]) THEN << FloatOf(SeText(parts[i])) >> ELSE <<>>)
       \o SeValues(parts, i + 1)

\* round(total / n, 2) of a total in hundredths. A quotient halfway between two
\* hundredths goes to either, as the binary value of the quotient decides.
RoundedQuotients(total, n) ==
  LET q == total \div n
      r == total % n
  IN IF 2 * r < n THEN {q} ELSE IF 2 * r > n THEN {q + 1} ELSE {q, q + 1}

\* One pass of the loop over results_dict.items() where no float() raises.
SummariseModel ==
  /\ pc = "summary"
  /\ sidx <= Len(results_dict)
  /\ LET data == results_dict[sidx]
         ling == LinguisticScores(data)
         logi == LogicalScores(data)
         parts == ScorePartsAfter(data, score_parts)
     IN /\ \A i \in 1..Len(data.Values) : ~ScoresRaise(data.Values[i])
        /\ score_parts' = parts
        /\ \E la \in (IF ling = <<>> THEN {0} ELSE RoundedQuotients(Sum(ling), Len(ling))),
              ls \in (IF ling # <<>> /\ output_se
                      THEN RoundedQuotients(Sum(SeValues(parts, 1)), Len(parts)) ELSE {0}),
              ga \in (IF logi = <<>> THEN {0} ELSE RoundedQuotients(Sum(logi), Len(logi))),
              gs \in (IF logi # <<>> /\ output_se
                      THEN RoundedQuotients(Sum(SeValues(parts, 1)), Len(parts)) ELSE {0}) :
             LET entries ==
                   (IF ling # <<>>
                    THEN << [name |-> "Linguistic Average", value |-> la] >>
                         \o (IF output_se
                             THEN << [name |-> "Linguistic SE", value |-> ls] >>
                             ELSE <<>>)
                    ELSE <<>>)
                   \o (IF logi # <<>>
                       THEN << [name |-> "Logical Average", value |-> ga] >>
                            \o (IF output_se
                                THEN << [name |-> "Logical SE", value |-> gs] >>
                                ELSE <<>>)
                       ELSE <<>>)
             IN summary' = IF entries = <<>> THEN summary
                           ELSE Append(summary, [model |-> data.model, scores |-> entries])
  /\ sidx' = sidx + 1
  /\ pc' = IF sidx' > Len(results_dict) THEN "print" ELSE "summary"
  /\ UNCHANGED << output_se, all_metrics, lines, results_dict, existing_models,
                  unknown_datasets, unknown_metrics, conflicts, out, args >>

\* One pass of that loop where float() raises ValueError: the run ends there.
SummaryValueError ==
  /\ pc = "summary"
  /\ sidx <= Len(results_dict)
  /\ \E i \in 1..Len(results_dict[sidx].Values) : ScoresRaise(results_dict[sidx].Values[i])
  /\ pc' = "error"
  /\ UNCHANGED << output_se, all_metrics, lines, results_dict, existing_models,
                  unknown_datasets, unknown_metrics, conflicts, out, args,
                  summary, sidx, score_parts >>

----------------------------------------------------------------------------
(* main: the printing *)

\* if not args.only_summary: the tables, as markdown with --markdown;
\* if not args.no_summary: the summary.
PrintOutput ==
  /\ pc = "print"
  /\ \E markdown \in BOOLEAN :
       out' = out
              \o (IF ~args.only_summary
                  THEN << [kind |-> IF markdown THEN "markdown_tables" ELSE "tables",
                           body |-> results_dict] >>
                  ELSE <<>>)
              \o (IF ~args.no_summary
                  THEN << [kind |-> "summary", body |-> summary] >>
                  ELSE <<>>)
  /\ pc' = "done"
  /\ UNCHANGED << output_se, all_metrics, lines, results_dict, existing_models,
                  unknown_datasets, unknown_metrics, conflicts, args, summary,
                  sidx, score_parts >>

\* The steps of the run once the file has been read.
AfterPass ==
  \/ ExitOnConflicts
  \/ UnknownDatasetsTypeError
  \/ ReturnResults
  \/ SummariseModel
  \/ SummaryValueError
  \/ PrintOutput

Next ==
  \/ SkipBlankLine(MaxLines)
  \/ \E rec \in Records : ProcessLine(rec, MaxLines)
  \/ AfterPass

Spec == Init /\ [][Next]_vars

NextDeep ==
  \/ SkipBlankLine(MaxDeepLines)
  \/ \E rec \in DeepRecords : ProcessLine(rec, MaxDeepLines)
  \/ AfterPass

\* The same program on longer files over fewer records.
SpecDeep == Init /\ [][NextDeep]_vars

----------------------------------------------------------------------------
(* What the properties speak of: the input read so far and what is stored *)

SchemaNames == DOMAIN expected_datasets_metrics

\* The schema's datasets other than speed.
ValueDatasets == SchemaNames \ {"speed"}

\* The records of model m and dataset d read so far, in the order of the file.
RecordsOf(m, d) ==
  SelectSeq(lines, LAMBDA r : ~r.blank /\ r.model = m /\ r.dataset = d)

\* Their formatted values, for a dataset of ValueDatasets.
TextsOf(m, d) ==
  [i \in 1..Len(RecordsOf(m, d)) |->
     FormattedValue(RecordsOf(m, d)[i], output_se, all_metrics)]

\* The result list of model m: its datasets and its values.
StoredDatasets(m) ==
  IF IndexOf(results_dict, m) = 0 THEN <<>>
  ELSE results_dict[IndexOf(results_dict, m)].Dataset

StoredValues(m) ==
  IF IndexOf(results_dict, m) = 0 THEN <<>>
  ELSE results_dict[IndexOf(results_dict, m)].Values

\* The conflict log of model m and dataset d.
ConflictValues(m, d) ==
  IF IndexOf(conflicts, m) = 0 THEN <<>>
  ELSE LET ds == conflicts[IndexOf(conflicts, m)].datasets
       IN IF \E j \in 1..Len(ds) : ds[j].dataset = d
          THEN ds[CHOOSE j \in 1..Len(ds) : ds[j].dataset = d].values
          ELSE <<>>

\* The datasets logged as conflicts of model m.
ConflictDatasets(m) ==
  IF IndexOf(conflicts, m) = 0 THEN {}
  ELSE LET ds == conflicts[IndexOf(conflicts, m)].datasets
       IN { ds[j].dataset : j \in 1..Len(ds) }

\* The value datasets of the records of model m read so far.
DatasetsRead(m) ==
  { lines[i].dataset : i \in { j \in 1..Len(lines) :
                                 /\ ~lines[j].blank
                                 /\ lines[j].model = m
                                 /\ lines[j].dataset \in ValueDatasets } }

\* The pairs of a model and a value dataset that the input holds more than once.
RepeatedPairs ==
  { << lines[i].model, lines[i].dataset >> :
      i \in { j \in 1..Len(lines) :
                /\ ~lines[j].blank
                /\ lines[j].dataset \in ValueDatasets
                /\ \E h \in 1..Len(lines) :
                     /\ h # j
                     /\ ~lines[h].blank
                     /\ lines[h].model = lines[j].model
                     /\ lines[h].dataset = lines[j].dataset } }

\* The lines of the conflict report about model m and dataset d.
ReportLinesFor(m, d) ==
  { i \in 1..Len(out) : /\ out[i].kind = "conflict"
                        /\ out[i].body.model = m
                        /\ out[i].body.dataset = d }

----------------------------------------------------------------------------
(* Properties *)

\* C1: every model's result list holds each dataset at most once, the value
\* stored for a (model, dataset) pair is the one formatted from the first record
\* of the pair, and the later records of the pair are, in order, the pair's
\* conflict log.
C1_FirstValueKept ==
  \A m \in Models :
    LET datasets == StoredDatasets(m)
        values == StoredValues(m)
        read == DatasetsRead(m)
    IN /\ \A i, j \in 1..Len(datasets) : datasets[i] = datasets[j] => i = j
       /\ Len(values) = Len(datasets)
       /\ { datasets[i] : i \in 1..Len(datasets) } = read
       /\ ConflictDatasets(m) \subseteq read
       /\ \A d \in read :
            \A texts \in { TextsOf(m, d) } :
               /\ \A i \in 1..Len(datasets) : datasets[i] = d => values[i] = texts[1]
               /\ ConflictValues(m, d) = Tail(texts)
               /\ d \in ConflictDatasets(m) <=> Len(texts) >= 2

\* A pair read three times, its second value other than its first.
C1_Witness ==
  \E m \in Models, d \in ValueDatasets :
    /\ Len(ConflictValues(m, d)) >= 2
    /\ ConflictValues(m, d)[1] # TextsOf(m, d)[1]
    /\ Len(StoredDatasets(m)) >= 2

\* C3, as claimed: a second record of a recorded pair ends the run with exit
\* status 1 and a report line for the pair that holds the first recorded value
\* and, besides it, every later value.
C3_ReportHasBothValues ==
  (RepeatedPairs # {} /\ pc # "reading") =>
    /\ pc = "exit1"
    /\ \A p \in RepeatedPairs :
         \E l \in ReportLinesFor(p[1], p[2]) :
           LET values == out[l].body.values
               texts == TextsOf(p[1], p[2])
           IN \E i \in 1..Len(values) :
                /\ values[i] = texts[1]
                /\ \A k \in 2..Len(texts) :
                     \E j \in (1..Len(values)) \ {i} : values[j] = texts[k]

\* C4: nothing is printed while lines are read; once the pass has ended on an
\* input with a repeated pair the run has exited with status 1, what was printed
\* is the conflict report alone, and the report has one line for every repeated
\* pair, holding the pair's later values.
C4_ConflictsAfterPass ==
  /\ pc = "reading" => out = <<>>
  /\ (RepeatedPairs # {} /\ pc # "reading") =>
       /\ pc = "exit1"
       /\ \A i \in 1..Len(out) : out[i].kind \in {"conflicts_header", "conflict"}
       /\ \A p \in RepeatedPairs :
            /\ Cardinality(ReportLinesFor(p[1], p[2])) = 1
            /\ \A l \in ReportLinesFor(p[1], p[2]) :
                 out[l].body.values = Tail(TextsOf(p[1], p[2]))

\* The run has exited on two repeated pairs, with a missing metric seen as well.
C4_Witness ==
  /\ pc = "exit1"
  /\ Cardinality(RepeatedPairs) >= 2
  /\ unknown_metrics # {}

\* The records of model m read so far, in the order of the file.
RecordsOfModel(m) == SelectSeq(lines, LAMBDA r : ~r.blank /\ r.model = m)

\* No (model, dataset) pair occurs twice in the input.
NoRepeats ==
  \A i, j \in 1..Len(lines) :
    (/\ ~lines[i].blank
     /\ ~lines[j].blank
     /\ lines[i].model = lines[j].model
     /\ lines[i].dataset = lines[j].dataset) => i = j

\* extract_all_results has returned to main.
Returned == pc \in {"summary", "print", "done"} \/ (pc = "error" /\ sidx >= 1)

Reads(rec) == pc = "reading" /\ lines' = Append(lines, rec)

\* C5, as claimed: in primary-metric mode a record of a schema dataset other
\* than speed without the dataset's primary metric adds the dataset and metric
\* to unknown_metrics, adds no entry to the model's result list and adds nothing
\* to the conflict log.
C5_MissingMetricStoresNothing ==
  [][ \A r \in Records :
        (/\ Reads(r)
         /\ ~all_metrics
         /\ r.dataset \in ValueDatasets
         /\ ~TotalHas(r.total, Key(expected_datasets_metrics[r.dataset])))
        => /\ [dataset |-> r.dataset, metric |-> expected_datasets_metrics[r.dataset]]
                \in unknown_metrics'
           /\ StoredDatasets(r.model)' = StoredDatasets(r.model)
           /\ StoredValues(r.model)' = StoredValues(r.model)
           /\ conflicts' = conflicts ]_vars

\* The unknown dataset fields of the records read so far.
UnknownNamesRead ==
  { lines[i].dataset : i \in { j \in 1..Len(lines) :
                                 ~lines[j].blank /\ lines[j].dataset \notin SchemaNames } }

\* C6: no result list and no conflict log holds a dataset that is not a key of
\* the schema, unknown_datasets is the set of the unknown dataset fields read
\* (the missing field included), and they are printed in one message at most.
C6_UnknownDatasetsSetAside ==
  /\ \A m \in Models :
       /\ \A i \in 1..Len(StoredDatasets(m)) : StoredDatasets(m)[i] \in SchemaNames
       /\ ConflictDatasets(m) \subseteq SchemaNames
  /\ unknown_datasets = UnknownNamesRead
  /\ Cardinality({ i \in 1..Len(out) : out[i].kind = "unknown_datasets" }) <= 1
  /\ \A i \in 1..Len(out) :
       out[i].kind = "unknown_datasets" => out[i].body = UnknownNamesRead

\* Two records carry the same unknown name, and the message has been printed.
C6_Witness ==
  /\ \E i, j \in 1..Len(lines) :
       /\ i # j
       /\ ~lines[i].blank
       /\ ~lines[j].blank
       /\ lines[i].dataset = "foo"
       /\ lines[j].dataset = "foo"
  /\ unknown_datasets = {"foo"}
  /\ \E i \in 1..Len(out) : out[i].kind = "unknown_datasets"

\* C7: a record whose dataset is speed leaves every result list, the unknown
\* datasets, the unknown metrics and the conflict log as they were.
C7_SpeedStoresNothing ==
  [][ \A r \in Records :
        (Reads(r) /\ r.dataset = "speed")
        => /\ \A m \in Models :
                /\ StoredDatasets(m)' = StoredDatasets(m)
                /\ StoredValues(m)' = StoredValues(m)
           /\ unknown_datasets' = unknown_datasets
           /\ unknown_metrics' = unknown_metrics
           /\ conflicts' = conflicts ]_vars

\* Two speed records of one model have been read, under both flags.
C7_Witness ==
  /\ output_se
  /\ all_metrics
  /\ Len(lines) = 2
  /\ lines[1].dataset = "speed"
  /\ lines[2] = lines[1]

\* The summary of model m: its entries, and the value of a named entry.
SummaryScores(m) ==
  IF IndexOf(summary, m) = 0 THEN <<>> ELSE summary[IndexOf(summary, m)].scores

HasScore(m, name) ==
  \E i \in 1..Len(SummaryScores(m)) : SummaryScores(m)[i].name = name

ScoreValue(m, name) ==
  SummaryScores(m)[CHOOSE i \in 1..Len(SummaryScores(m)) :
                     SummaryScores(m)[i].name = name].value

\* v is total / n rounded to a whole number of hundredths.
IsRounded(v, total, n) ==
  /\ 2 * (n * v - total) <= n
  /\ 2 * (total - n * v) <= n

\* The models of the extractor's output.
OutputModels == { results_dict[i].model : i \in 1..Len(results_dict) }

\* calculate_summary has been called and has ended.
SummaryEnded == Returned /\ SummaryWanted(args) /\ pc # "summary"

\* The average of a group is in the summary of model m exactly when a dataset of
\* the group is in m's result list, and is then the rounded mean of the base
\* numbers of all sub-values of the group's datasets in that list.
GroupAverageRight(m, group, name) ==
  LET data == results_dict[IndexOf(results_dict, m)]
      numbers == GroupScores(data, group, 1)
  IN /\ HasScore(m, name) <=> \E i \in 1..Len(data.Dataset) : data.Dataset[i] \in group
     /\ HasScore(m, name) => IsRounded(ScoreValue(m, name), Sum(numbers), Len(numbers))

\* C8, as claimed: for every model of the extractor's output the summary holds
\* the Linguistic Average (the Logical Average) exactly when a dataset of the
\* linguistic (logical) group was recorded for the model, with the mean of the
\* base numbers of the group's sub-values as its value.
C8_AveragesPerGroup ==
  SummaryEnded =>
    /\ pc # "error"
    /\ \A m \in OutputModels :
         /\ GroupAverageRight(m, linguistic_datasets, "Linguistic Average")
         /\ GroupAverageRight(m, logical_datasets, "Logical Average")

\* The SE of a group in the summary of model m is the sum of the standard errors
\* of the sub-values of the last dataset of the group in m's result list,
\* divided by the number of those sub-values.
GroupSeRight(m, group, name) ==
  LET data == results_dict[IndexOf(results_dict, m)]
      last == CHOOSE i \in 1..Len(data.Dataset) :
                /\ data.Dataset[i] \in group
                /\ \A j \in (i + 1)..Len(data.Dataset) : data.Dataset[j] \notin group
      parts == Split(data.Values[last], Sep)
  IN HasScore(m, name) =>
       IsRounded(ScoreValue(m, name), Sum(SeValues(parts, 1)), Len(parts))

\* C9, as claimed: with standard errors requested, the SE of a category in a
\* model's summary is computed from, and divided by the sub-value count of, the
\* last dataset of that category in the model's result list.
C9_SeFromOwnCategory ==
  (SummaryEnded /\ pc # "error" /\ output_se) =>
    \A m \in OutputModels :
      /\ GroupSeRight(m, linguistic_datasets, "Linguistic SE")
      /\ GroupSeRight(m, logical_datasets, "Logical SE")

\* C10, as claimed: when the extractor has returned and calculate_summary has
\* been called, it ends without an error, and every stored value splits into
\* sub-values whose base parts parse as numbers.
C10_SummaryNeverRaises ==
  SummaryEnded =>
    /\ pc # "error"
    /\ \A m \in OutputModels :
         \A i \in 1..Len(StoredValues(m)) : ~ScoresRaise(StoredValues(m)[i])

\* C8 where calculate_summary has not raised.
C8_WhenNoError ==
  (SummaryEnded /\ pc # "error") =>
    \A m \in OutputModels :
      /\ GroupAverageRight(m, linguistic_datasets, "Linguistic Average")
      /\ GroupAverageRight(m, logical_datasets, "Logical Average")

====
